---- MODULE Spec2Model ----
(***************************************************************************)
(* A model of jberkenbilt/go-to-rust, stage 05-final:                      *)
(*   - the async readers-writer lock (runtime-tokio/src/rwlock.rs),         *)
(*   - the Controller that keeps ReqData behind it (controller/src/lib.rs), *)
(*   - the function-based singleton wrapper (device/src/lib.rs),            *)
(*   - the lock tests (runtime-tokio/src/rwlock/tests.rs),                  *)
(*   - the type-erased box that owns a lock (base/implbox/src/lib.rs),      *)
(*   - beside it the Controllers of 00-initial and 03-stable-rust.          *)
(* Strings are TLA+ strings; format!() is string concatenation.             *)
(* An action is the code a task runs between two suspension points; tasks  *)
(* interleave freely at those points. TokioLockWrapper hands read() and    *)
(* write() to tokio::sync::RwLock, whose waiters are served in arrival     *)
(* order: a reader that arrives behind a waiting writer queues behind it.  *)
(* seq is an i32; the runs are bounded far below its overflow.             *)
(***************************************************************************)
EXTENDS Integers, Sequences, FiniteSets, TLC

(* ------------------------------ bounds --------------------------------- *)
\* tasks that use one bare lock concurrently (SpecLock)
NLockTasks == 3
\* tasks that call one()/two() on one Controller concurrently (Spec)
NTasks == 2
\* calls started on one Controller in one run (Spec)
MaxCalls == 2
\* calls awaited one after the other by a single caller (SpecSeq,
\* SpecStages)
MaxSeqCalls == 3
\* threads that call the wrapper API (SpecDevice)
NThreads == 2
\* wrapper calls issued in one run (SpecDevice)
MaxOps == 3
\* wrapper calls issued one after the other by a single thread
\* (SpecDeviceSeq)
MaxSeqOps == 5
\* tasks that use a boxed lock and a bare lock side by side (SpecBox)
NBoxTasks == 2
\* the largest value the increments of SpecBox reach
MaxCell == 6

VARIABLES
    pc,         \* task -> position in its code
    lock,       \* the tokio RwLock: who holds it, who waits for it
    cell,       \* the i32 behind the lock of the lock tests
    req_data,   \* ReqData {seq, last_path} behind the Controller's lock
    local,      \* task -> its arguments, locals and result
    hist,       \* history of the run (what happened, never read by the code)
    slot,       \* CONTROLLER.controller: "None" or "Some"
    slotLock,   \* the std RwLock around the slot
    engines,    \* how many tokio runtimes CONTROLLER has built
    chan,       \* the oneshot channel of test_lock
    heap        \* an ImplBox, the payload it owns, and what was done to them

vars ==
    <<pc, lock, cell, req_data, local, hist, slot, slotLock, engines, chan,
      heap>>

(* ------------------- the lock (TokioLockWrapper) ----------------------- *)
NoTask == 0

\* AsyncRwLock::new
NewLock == [writer |-> NoTask, readers |-> {}, queue |-> <<>>]

HoldsRead(l, t) == t \in l.readers
HoldsWrite(l, t) == l.writer = t

\* read() is granted at once when no writer holds or waits for the lock
CanReadBarging(l) == l.writer = NoTask
CanReadNoWriterCheck(l) == l.queue = <<>>
CanReadExclusive(l) == l.writer = NoTask /\ l.readers = {} /\ l.queue = <<>>
CanRead(l) == l.writer = NoTask /\ l.queue = <<>>

\* write() is granted at once when nobody holds or waits for the lock
CanWriteIgnoringReaders(l) == l.writer = NoTask /\ l.queue = <<>>
CanWriteIgnoringWriter(l) == l.readers = {} /\ l.queue = <<>>
CanWrite(l) == l.writer = NoTask /\ l.readers = {} /\ l.queue = <<>>

\* the first poll of read(): take the guard or join the queue
LockRead(l, t) ==
    IF CanRead(l)
    THEN [l EXCEPT !.readers = @ \cup {t}]
    ELSE [l EXCEPT !.queue = Append(@, [task |-> t, mode |-> "r"])]

\* the first poll of write(): take the guard or join the queue
LockWriteBarging(l, t) == [l EXCEPT !.writer = t]
LockWrite(l, t) ==
    IF CanWrite(l)
    THEN [l EXCEPT !.writer = t]
    ELSE [l EXCEPT !.queue = Append(@, [task |-> t, mode |-> "w"])]

\* hand the lock to the waiters at the head of the queue, in order
RECURSIVE Grant(_)
Grant(l) ==
    IF l.queue = <<>> \/ l.writer # NoTask THEN l
    ELSE LET h == Head(l.queue) IN
         IF h.mode = "r"
         THEN Grant([l EXCEPT !.readers = @ \cup {h.task}, !.queue = Tail(@)])
         ELSE IF l.readers = {}
              THEN [l EXCEPT !.writer = h.task, !.queue = Tail(@)]
              ELSE l

\* a guard goes out of scope
UnlockWriterOnly(l, t) ==
    Grant([l EXCEPT !.writer = IF @ = t THEN NoTask ELSE @])
UnlockNoWake(l, t) ==
    [l EXCEPT !.writer = IF @ = t THEN NoTask ELSE @, !.readers = @ \ {t}]
Unlock(l, t) ==
    Grant([l EXCEPT !.writer = IF @ = t THEN NoTask ELSE @,
                    !.readers = @ \ {t}])

(* ------------------------------ ImplBox -------------------------------- *)
\* no ImplBox has been made
NoBox == [live |-> FALSE]

\* ImplBox::new(id, destroy, ptr)
ImplBoxNew(id, destroy, ptr) == [id |-> id, ptr |-> ptr, destroy |-> destroy]

\* ImplBox::with(&self, id, f): what the call returns or panics with, and
\* the pointers f was invoked on
ImplBoxWithUnchecked(b, id, f) ==
    [kind |-> "ret", val |-> [f |-> f, arg |-> b.ptr], calls |-> <<b.ptr>>]
ImplBoxWithInverted(b, id, f) ==
    IF b.id # id
    THEN [kind |-> "ret", val |-> [f |-> f, arg |-> b.ptr],
          calls |-> <<b.ptr>>]
    ELSE [kind |-> "panic", val |-> "id mismatch", calls |-> <<>>]
ImplBoxWith(b, id, f) ==
    IF b.id = id
    THEN [kind |-> "ret", val |-> [f |-> f, arg |-> b.ptr],
          calls |-> <<b.ptr>>]
    ELSE [kind |-> "panic", val |-> "id mismatch", calls |-> <<>>]

\* Drop for ImplBox: the calls drop() makes, (self.destroy)(self.ptr)
ImplBoxDropLeak(b) == <<>>
ImplBoxDrop(b) == <<[fn |-> b.destroy, arg |-> b.ptr]>>

(* --------------- SpecLock: tasks using one bare lock ------------------- *)
LockTasks == 1..NLockTasks
CellVals == {3, 4, 5}

IdleHist == [x |-> 0]

InitLock ==
    /\ pc = [t \in LockTasks |-> "idle"]
    /\ lock = NewLock
    /\ cell = 3
    /\ req_data = [seq |-> 0, last_path |-> ""]
    /\ local = [t \in LockTasks |-> [seen |-> 0]]
    /\ hist = IdleHist
    /\ slot = "None"
    /\ slotLock = [writer |-> NoTask, readers |-> {}]
    /\ engines = 0
    /\ chan = "empty"
    /\ heap = NoBox

otherThanLock == <<req_data, hist, slot, slotLock, engines, chan, heap>>

\* let g = m.read() ... first poll
LRead(t) ==
    /\ pc[t] = "idle"
    /\ lock' = LockRead(lock, t)
    /\ pc' = [pc EXCEPT ![t] = "waitR"]
    /\ UNCHANGED <<cell, local, otherThanLock>>

\* ... .await returns the read guard
LGotRead(t) ==
    /\ pc[t] = "waitR"
    /\ HoldsRead(lock, t)
    /\ pc' = [pc EXCEPT ![t] = "holdR"]
    /\ local' = [local EXCEPT ![t].seen = cell]
    /\ UNCHANGED <<lock, cell, otherThanLock>>

\* let mut g = m.write() ... first poll
LWrite(t) ==
    /\ pc[t] = "idle"
    /\ lock' = LockWrite(lock, t)
    /\ pc' = [pc EXCEPT ![t] = "waitW"]
    /\ UNCHANGED <<cell, local, otherThanLock>>

\* ... .await returns the write guard
LGotWrite(t) ==
    /\ pc[t] = "waitW"
    /\ HoldsWrite(lock, t)
    /\ pc' = [pc EXCEPT ![t] = "holdW"]
    /\ local' = [local EXCEPT ![t].seen = cell]
    /\ UNCHANGED <<lock, cell, otherThanLock>>

\* *g = v under the write guard
LStore(t) ==
    /\ pc[t] = "holdW"
    /\ \E v \in CellVals :
         /\ v # cell
         /\ cell' = v
         /\ local' = [local EXCEPT ![t].seen = v]
    /\ UNCHANGED <<pc, lock, otherThanLock>>

\* the guard is dropped
LDrop(t) ==
    /\ pc[t] \in {"holdR", "holdW"}
    /\ lock' = Unlock(lock, t)
    /\ pc' = [pc EXCEPT ![t] = "idle"]
    /\ UNCHANGED <<cell, local, otherThanLock>>

NextLock ==
    \E t \in LockTasks :
        \/ LRead(t)
        \/ LGotRead(t)
        \/ LWrite(t)
        \/ LGotWrite(t)
        \/ LStore(t)
        \/ LDrop(t)

SpecLock == InitLock /\ [][NextLock]_vars

\* the tasks that hold a guard they got from write().await / read().await
WriteHolders == {t \in DOMAIN pc : pc[t] = "holdW"}
ReadHolders == {t \in DOMAIN pc : pc[t] = "holdR"}

\* C1: at most one task holds a write guard, and while a write guard is
\* held no task holds a read guard.
C1_MutualExclusion ==
    /\ Cardinality(WriteHolders) <= 1
    /\ (WriteHolders # {} => ReadHolders = {})

\* C1 witness: a writer holds the guard while a reader and a writer wait
C1_Witness ==
    /\ WriteHolders # {}
    /\ \E i \in DOMAIN lock.queue : lock.queue[i].mode = "r"
    /\ \E i \in DOMAIN lock.queue : lock.queue[i].mode = "w"

\* C21: read access is shared: a read() polled while no writer holds or
\* waits for the lock is granted at once, beside the read guards that are
\* already held, so two tasks can hold read guards at the same time.
C21_SharedRead ==
    [][\A t \in LockTasks :
          (/\ pc[t] = "idle"
           /\ pc'[t] = "waitR"
           /\ lock.writer = NoTask
           /\ lock.queue = <<>>)
          => /\ lock'.readers = lock.readers \cup {t}
             /\ lock'.writer = NoTask
             /\ lock'.queue = <<>>]_vars

\* C21 witness: two tasks hold read guards and no writer holds or waits
C21_Witness ==
    /\ Cardinality(ReadHolders) >= 2
    /\ ReadHolders \subseteq lock.readers
    /\ lock.writer = NoTask
    /\ lock.queue = <<>>

(* ------- SpecLockFair: tasks that take and release the lock for ever ---- *)
\* the tasks only acquire and release; the value behind the lock stays
NextLockFair ==
    \E t \in LockTasks :
        \/ LRead(t)
        \/ LGotRead(t)
        \/ LWrite(t)
        \/ LGotWrite(t)
        \/ LDrop(t)

\* the scheduler polls a task whose read()/write() has been granted, and a
\* task that holds a guard drops it; a task is free never to ask again
SpecLockFair ==
    /\ InitLock
    /\ [][NextLockFair]_vars
    /\ \A t \in LockTasks :
          /\ WF_vars(LGotRead(t))
          /\ WF_vars(LGotWrite(t))
          /\ WF_vars(LDrop(t))

\* C11: under fair scheduling, with every guard eventually dropped, a task
\* that has called write() eventually holds the write guard and a task that
\* has called read() eventually holds a read guard, whatever the other
\* tasks keep doing.
C11_EventualAcquisition ==
    \A t \in LockTasks :
        /\ (pc[t] = "waitW") ~> (pc[t] = "holdW")
        /\ (pc[t] = "waitR") ~> (pc[t] = "holdR")

\* C11 witness: a writer waits at the head of the queue behind a read
\* holder while a further reader has queued behind it
C11_Witness ==
    /\ Cardinality(ReadHolders) >= 1
    /\ Len(lock.queue) >= 2
    /\ lock.queue[1].mode = "w"
    /\ lock.queue[2].mode = "r"

(* ---- SpecBox: a lock made by box_lock beside one made by new_lock ------ *)
BoxTasks == 1..NBoxTasks

\* TypeId::of::<C>() of the concrete lock types an unbox method may stand for
TypeIds == {"TokioLockWrapper<i32>", "OtherLockWrapper<i32>"}
\* the closures handed to with()
Closures == {"as_ref", "is_null"}
\* values stored with *m = v
BoxVals == {3, 4}

\* box_lock(item): the lock new_lock(item) moved to the heap, and the
\* ImplBox that owns it
BoxLock(item) ==
    [box |-> ImplBoxNew("TokioLockWrapper<i32>", "drop_lock", "p1"),
     payload |-> [lock |-> NewLock, val |-> item]]

\* unbox_lock(&ImplBox): the reference to the lock, through with()
UnboxLock(b) == ImplBoxWith(b, "TokioLockWrapper<i32>", "as_ref")

\* Thing::new(3) beside new_lock(3)
InitBox ==
    /\ pc = [t \in BoxTasks |-> "idle"]
    /\ lock = NewLock
    /\ cell = 3
    /\ req_data = [seq |-> 0, last_path |-> ""]
    /\ local = [t \in BoxTasks |-> [seen |-> 0, bseen |-> 0]]
    /\ hist = IdleHist
    /\ slot = "None"
    /\ slotLock = [writer |-> NoTask, readers |-> {}]
    /\ engines = 0
    /\ chan = "empty"
    /\ heap = [live |-> TRUE, box |-> BoxLock(3).box,
               payload |-> BoxLock(3).payload, destroyed |-> <<>>,
               last |-> <<>>]

notBox == <<req_data, hist, slot, slotLock, engines, chan>>

\* a task calls with(id, f) on the box; a panic unwinds the task, which
\* drops the guard it holds
XWith(t) ==
    /\ heap.live
    /\ pc[t] \in {"idle", "holdR", "holdW"}
    /\ \E id \in TypeIds, f \in Closures :
         LET out == ImplBoxWith(heap.box, id, f)
             rec == [task |-> t, id |-> id, f |-> f, out |-> out]
         IN  IF out.kind = "panic"
             THEN /\ pc' = [pc EXCEPT ![t] = "panicked"]
                  /\ lock' = Unlock(lock, t)
                  /\ heap' = [heap EXCEPT !.last = <<rec>>,
                                 !.payload.lock = Unlock(@, t)]
             ELSE /\ heap' = [heap EXCEPT !.last = <<rec>>]
                  /\ UNCHANGED <<pc, lock>>
    /\ UNCHANGED <<cell, local, notBox>>

\* m.read() / m.write() is polled on the bare lock, and on the lock that
\* unbox_lock returns
XAcquire(t) ==
    /\ heap.live
    /\ pc[t] = "idle"
    /\ \E mode \in {"r", "w"} :
         /\ lock' = IF mode = "r" THEN LockRead(lock, t)
                                  ELSE LockWrite(lock, t)
         /\ IF UnboxLock(heap.box).kind = "ret"
            THEN /\ heap' = [heap EXCEPT !.payload.lock =
                                IF mode = "r" THEN LockRead(@, t)
                                              ELSE LockWrite(@, t)]
                 /\ pc' = [pc EXCEPT ![t] =
                                IF mode = "r" THEN "waitR" ELSE "waitW"]
            ELSE /\ heap' = heap
                 /\ pc' = [pc EXCEPT ![t] = "unbox_panic"]
    /\ UNCHANGED <<cell, local, notBox>>

\* .await returns the guard of the bare lock; the task looks at the value
\* behind it, and at the value behind the boxed lock if that one has
\* granted its guard too
XGot(t) ==
    /\ \/ pc[t] = "waitR" /\ HoldsRead(lock, t)
       \/ pc[t] = "waitW" /\ HoldsWrite(lock, t)
    /\ pc' = [pc EXCEPT ![t] = IF pc[t] = "waitR" THEN "holdR" ELSE "holdW"]
    /\ local' = [local EXCEPT ![t].seen = cell,
                              ![t].bseen =
                                 IF \/ HoldsRead(heap.payload.lock, t)
                                    \/ HoldsWrite(heap.payload.lock, t)
                                 THEN heap.payload.val ELSE 0]
    /\ UNCHANGED <<lock, cell, heap, notBox>>

\* *m = v or *m += 1 under the write guards
XStore(t) ==
    /\ pc[t] = "holdW"
    /\ \/ \E v \in BoxVals :
            /\ cell' = v
            /\ heap' = [heap EXCEPT !.payload.val = v]
       \/ /\ cell < MaxCell
          /\ cell' = cell + 1
          /\ heap' = [heap EXCEPT !.payload.val = @ + 1]
    /\ local' = [local EXCEPT ![t].seen = cell',
                              ![t].bseen = heap'.payload.val]
    /\ UNCHANGED <<pc, lock, notBox>>

\* the guards go out of scope
XRelease(t) ==
    /\ pc[t] \in {"holdR", "holdW"}
    /\ lock' = Unlock(lock, t)
    /\ heap' = [heap EXCEPT !.payload.lock = Unlock(@, t)]
    /\ pc' = [pc EXCEPT ![t] = "idle"]
    /\ UNCHANGED <<cell, local, notBox>>

\* the owner of the box goes out of scope once no task borrows from it
XDropBox ==
    /\ heap.live
    /\ \A t \in BoxTasks : pc[t] \in {"idle", "panicked"}
    /\ heap' = [heap EXCEPT !.live = FALSE,
                            !.destroyed = @ \o ImplBoxDrop(heap.box)]
    /\ UNCHANGED <<pc, lock, cell, local, notBox>>

NextBox ==
    \/ XDropBox
    \/ \E t \in BoxTasks :
          \/ XWith(t)
          \/ XAcquire(t)
          \/ XGot(t)
          \/ XStore(t)
          \/ XRelease(t)

SpecBox == InitBox /\ [][NextBox]_vars

\* C15: a with(id, f) whose id equals the tag stored at creation invokes f
\* exactly once, on the stored payload pointer, and returns f's result; a
\* with(id, f) with any other id panics with "id mismatch", never invokes
\* f, returns no value, and ends the calling task.
C15_WithTagCheck ==
    \A i \in DOMAIN heap.last :
        LET w == heap.last[i] IN
        /\ (w.id = heap.box.id) <=> (w.out.kind = "ret")
        /\ w.out.kind = "ret" =>
              /\ w.out.calls = <<heap.box.ptr>>
              /\ w.out.val = [f |-> w.f, arg |-> heap.box.ptr]
        /\ w.out.kind # "ret" =>
              /\ w.out.kind = "panic"
              /\ w.out.val = "id mismatch"
              /\ w.out.calls = <<>>
              /\ pc[w.task] = "panicked"

\* C15 witness: a with() with the wrong id has panicked while another task
\* holds the write guard of the boxed lock
C15_Witness ==
    /\ heap.live
    /\ Len(heap.last) = 1
    /\ heap.last[1].id # heap.box.id
    /\ heap.last[1].out.kind = "panic"
    /\ \E u \in BoxTasks : pc[u] = "holdW"

\* C16: the release function stored at creation is not invoked while the
\* box is alive; the drop of the box invokes it once, with the stored
\* payload pointer, whatever with() calls were made; after that nothing
\* reaches the payload.
C16_ReleasedOnce ==
    /\ [](heap.live => heap.destroyed = <<>>)
    /\ [](~heap.live =>
            heap.destroyed
              = <<[fn |-> heap.box.destroy, arg |-> heap.box.ptr]>>)
    /\ [][heap'.destroyed # heap.destroyed => heap.live /\ ~heap'.live]_vars
    /\ [][~heap.live => heap' = heap]_vars

\* C16 witness: the box was dropped after a matching with() and after the
\* payload was written through it
C16_Witness ==
    /\ ~heap.live
    /\ Len(heap.destroyed) = 1
    /\ Len(heap.last) = 1
    /\ heap.last[1].out.kind = "ret"
    /\ heap.payload.val = 5
    /\ \E t \in BoxTasks : pc[t] = "panicked"

NoRet == [kind |-> "none", i |-> 0, s |-> ""]
OkInt(n) == [kind |-> "int", i |-> n, s |-> ""]
OkStr(str) == [kind |-> "str", i |-> 0, s |-> str]
Err(msg) == [kind |-> "err", i |-> 0, s |-> msg]

BusinessError == Err("sorry, not that one")

(* ----------------------------- Controller ------------------------------- *)
\* ReqData::default()
DefaultReqData == [seq |-> 0, last_path |-> ""]

\* if val == 3
RejectedOther(val) == val = 5
RejectedNever(val) == FALSE
Rejected(val) == val = 3

\* format!("one?val={val}")
OnePath(val) == "one?val=" \o ToString(val)
\* format!("two?val={val}")
TwoPath(val) == "two?val=" \o val

\* ref_data.seq += 1
IncrSeqTwice(rd) == [rd EXCEPT !.seq = @ + 2]
IncrSeq(rd) == [rd EXCEPT !.seq = @ + 1]

\* ref_data.last_path = format!("{path}&seq={}", ref_data.seq)
WritePathStale(rd, path) ==
    [rd EXCEPT !.last_path = path \o "&seq=" \o ToString(rd.seq - 1)]
WritePath(rd, path) ==
    [rd EXCEPT !.last_path = path \o "&seq=" \o ToString(rd.seq)]

\* Ok(self.req_data().read().await.seq)
OneResultBefore(rd) == OkInt(rd.seq - 1)
OneResultNext(rd) == OkInt(rd.seq + 1)
OneResult(rd) == OkInt(rd.seq)
\* Ok(self.req_data().read().await.last_path.clone())
TwoResult(rd) == OkStr(rd.last_path)

Tasks == 1..NTasks
OneVals == {3, 5}
TwoVals == {"potato"}

\* the task is inside one() or two()
InCall(t) ==
    pc[t] \in {"req_write", "req_wait", "req_fmt", "read", "read_wait"}

NewLocal ==
    [op |-> "none", ival |-> 0, sval |-> "", path |-> "", ret |-> NoRet,
     seq0 |-> 0, alone |-> FALSE, mine |-> 0, idx |-> 0, epoch |-> 0]

\* history: calls started, increments executed, calls that returned a value,
\* the path that was given each sequence number, the calls in start order,
\* whether two calls ever overlapped; for the wrapper also the wrapper calls
\* issued and the init() calls that stored a Controller (calls, log, trace
\* and overlap then start again at each such init()), and the seq of the
\* Controller that the last init() replaced
NewHist ==
    [calls |-> 0, incs |-> 0, oks |-> 0, log |-> <<>>, trace |-> <<>>,
     overlap |-> FALSE, ops |-> 0, inits |-> 0, replaced |-> 0]

Init ==
    /\ pc = [t \in Tasks |-> "idle"]
    /\ lock = NewLock
    /\ cell = 0
    /\ req_data = DefaultReqData
    /\ local = [t \in Tasks |-> NewLocal]
    /\ hist = NewHist
    /\ slot = "None"
    /\ slotLock = [writer |-> NoTask, readers |-> {}]
    /\ engines = 0
    /\ chan = "empty"
    /\ heap = NoBox

notController == <<cell, slot, slotLock, engines, chan, heap>>

\* what a call that starts now records: its arguments, the seq it starts
\* from, and whether it runs alone
Started(t, op, iv, sv) ==
    [u \in DOMAIN local |->
        IF u = t
        THEN [NewLocal EXCEPT !.op = op, !.ival = iv, !.sval = sv,
                              !.seq0 = req_data.seq,
                              !.idx = Len(hist.trace) + 1,
                              !.epoch = hist.inits,
                              !.alone = \A w \in DOMAIN pc \ {t} : ~InCall(w)]
        ELSE IF InCall(u) THEN [local[u] EXCEPT !.alone = FALSE]
        ELSE local[u]]

Traced(op, iv, sv) ==
    [hist EXCEPT !.calls = @ + 1,
                 !.trace = Append(@, [op |-> op, ival |-> iv, sval |-> sv]),
                 !.overlap = @ \/ \E w \in DOMAIN pc : InCall(w)]

\* one()/two() up to the first await: one() returns the error at once if
\* val == 3; otherwise the path is built for request()
BeginCall(t, op, iv, sv) ==
    /\ hist' = Traced(op, iv, sv)
    /\ IF op = "one" /\ Rejected(iv)
       THEN /\ local' = [Started(t, op, iv, sv) EXCEPT ![t].ret = BusinessError]
            /\ pc' = [pc EXCEPT ![t] = "done"]
       ELSE /\ local' = [Started(t, op, iv, sv) EXCEPT ![t].path =
                            IF op = "one" THEN OnePath(iv) ELSE TwoPath(sv)]
            /\ pc' = [pc EXCEPT ![t] = "req_write"]

\* a caller awaits c.one(val)
CallOne(t, limit) ==
    /\ pc[t] \in {"idle", "done"}
    /\ hist.calls < limit
    /\ \E val \in OneVals : BeginCall(t, "one", val, "")
    /\ UNCHANGED <<lock, req_data, notController>>

\* a caller awaits c.two(val)
CallTwo(t, limit) ==
    /\ pc[t] \in {"idle", "done"}
    /\ hist.calls < limit
    /\ \E val \in TwoVals : BeginCall(t, "two", 0, val)
    /\ UNCHANGED <<lock, req_data, notController>>

\* request(): self.req_data().write() is polled
ReqWrite(t) ==
    /\ pc[t] = "req_write"
    /\ lock' = LockWrite(lock, t)
    /\ pc' = [pc EXCEPT ![t] = "req_wait"]
    /\ UNCHANGED <<req_data, local, hist, notController>>

\* request(): .await returns the write guard; ref_data.seq += 1
ReqIncr(t) ==
    /\ pc[t] = "req_wait"
    /\ HoldsWrite(lock, t)
    /\ req_data' = IncrSeq(req_data)
    /\ local' = [local EXCEPT ![t].mine = req_data'.seq]
    /\ hist' = [hist EXCEPT !.incs = @ + 1,
                            !.log = Append(@, [seq |-> req_data'.seq,
                                               path |-> local[t].path])]
    /\ pc' = [pc EXCEPT ![t] = "req_fmt"]
    /\ UNCHANGED <<lock, notController>>

\* request(): the async block that writes last_path; then Ok(()) and the
\* write guard goes out of scope
ReqFormat(t) ==
    /\ pc[t] = "req_fmt"
    /\ req_data' = WritePath(req_data, local[t].path)
    /\ lock' = Unlock(lock, t)
    /\ pc' = [pc EXCEPT ![t] = "read"]
    /\ UNCHANGED <<local, hist, notController>>

\* one()/two(): self.req_data().read() is polled
ReadCall(t) ==
    /\ pc[t] = "read"
    /\ lock' = LockRead(lock, t)
    /\ pc' = [pc EXCEPT ![t] = "read_wait"]
    /\ UNCHANGED <<req_data, local, hist, notController>>

\* one()/two(): .await returns the read guard, the field is read, the guard
\* is dropped and Ok(..) is returned
ReadDone(t) ==
    /\ pc[t] = "read_wait"
    /\ HoldsRead(lock, t)
    /\ local' = [local EXCEPT ![t].ret =
                    IF local[t].op = "one" THEN OneResult(req_data)
                    ELSE TwoResult(req_data)]
    /\ lock' = Unlock(lock, t)
    /\ hist' = [hist EXCEPT !.oks = @ + 1]
    /\ pc' = [pc EXCEPT ![t] = "done"]
    /\ UNCHANGED <<req_data, notController>>

ControllerStep(t) ==
    \/ ReqWrite(t)
    \/ ReqIncr(t)
    \/ ReqFormat(t)
    \/ ReadCall(t)
    \/ ReadDone(t)

Next ==
    \E t \in Tasks :
        \/ CallOne(t, MaxCalls)
        \/ CallTwo(t, MaxCalls)
        \/ ControllerStep(t)

Spec == Init /\ [][Next]_vars

\* a single caller that awaits each call before it starts the next, as
\* tests::test_basic does
Caller == 1

InitSeq ==
    /\ pc = [t \in {Caller} |-> "idle"]
    /\ lock = NewLock
    /\ cell = 0
    /\ req_data = DefaultReqData
    /\ local = [t \in {Caller} |-> NewLocal]
    /\ hist = NewHist
    /\ slot = "None"
    /\ slotLock = [writer |-> NoTask, readers |-> {}]
    /\ engines = 0
    /\ chan = "empty"
    /\ heap = NoBox

NextSeq ==
    \/ CallOne(Caller, MaxSeqCalls)
    \/ CallTwo(Caller, MaxSeqCalls)
    \/ ControllerStep(Caller)

SpecSeq == InitSeq /\ [][NextSeq]_vars

(* ------------- a Controller driven directly, one call at a time -------- *)
\* c.one(val).await with no other call in progress
DirectOne(rd, val) ==
    IF Rejected(val)
    THEN [rd |-> rd, ret |-> BusinessError]
    ELSE LET after == WritePath(IncrSeq(rd), OnePath(val))
         IN  [rd |-> after, ret |-> OneResult(after)]

\* c.two(val).await with no other call in progress
DirectTwo(rd, val) ==
    LET after == WritePath(IncrSeq(rd), TwoPath(val))
    IN  [rd |-> after, ret |-> TwoResult(after)]

\* the results of a sequence of calls awaited one after the other
RECURSIVE DirectRun(_, _)
DirectRun(rd, calls) ==
    IF calls = <<>> THEN <<>>
    ELSE LET c == Head(calls)
             r == IF c.op = "one" THEN DirectOne(rd, c.ival)
                  ELSE DirectTwo(rd, c.sval)
         IN  <<r.ret>> \o DirectRun(r.rd, Tail(calls))

(* ------------------- the singleton wrapper (device) --------------------- *)
Threads == 1..NThreads

ConfigError == Err("call init first")

\* LazyLock::new(|| Wrapper { rt: ..build().unwrap(), controller: None }):
\* the first access builds the one runtime
ForceAgain(n) == n + 1
Force(n) == IF n = 0 THEN 1 ELSE n

\* let Some(controller) = &*lock else { return Err(..) }
SlotEmptyNever(sl) == FALSE
SlotEmpty(sl) == sl = "None"

\* Controller::new()
ControllerKept == req_data
ControllerNew == DefaultReqData

InitDevice ==
    /\ pc = [t \in Threads |-> "idle"]
    /\ lock = NewLock
    /\ cell = 0
    /\ req_data = DefaultReqData
    /\ local = [t \in Threads |-> NewLocal]
    /\ hist = NewHist
    /\ slot = "None"
    /\ slotLock = [writer |-> NoTask, readers |-> {}]
    /\ engines = 0
    /\ chan = "empty"
    /\ heap = NoBox

Outside(t) == pc[t] \in {"idle", "out"}

\* a thread calls init()
DevInit(t, limit) ==
    /\ Outside(t)
    /\ hist.ops < limit
    /\ hist' = [hist EXCEPT !.ops = @ + 1]
    /\ local' = [local EXCEPT ![t] = [NewLocal EXCEPT !.op = "init"]]
    /\ pc' = [pc EXCEPT ![t] = "init_lock"]
    /\ UNCHANGED <<lock, cell, req_data, slot, slotLock, engines, chan, heap>>

\* init(): CONTROLLER.controller.write().unwrap() returns the guard
InitLockedNoWait(t) ==
    /\ pc[t] = "init_lock"
    /\ slotLock.writer = NoTask
    /\ slotLock' = [slotLock EXCEPT !.writer = t]
    /\ engines' = Force(engines)
    /\ pc' = [pc EXCEPT ![t] = "init_store"]
    /\ UNCHANGED <<lock, cell, req_data, local, hist, slot, chan, heap>>
InitLocked(t) ==
    /\ pc[t] = "init_lock"
    /\ slotLock.writer = NoTask
    /\ slotLock.readers = {}
    /\ slotLock' = [slotLock EXCEPT !.writer = t]
    /\ engines' = Force(engines)
    /\ pc' = [pc EXCEPT ![t] = "init_store"]
    /\ UNCHANGED <<lock, cell, req_data, local, hist, slot, chan, heap>>

\* init(): *controller = Some(Controller::new()), and the write guard of
\* the slot is dropped
InitStore(t) ==
    /\ pc[t] = "init_store"
    /\ slot' = "Some"
    /\ req_data' = ControllerNew
    /\ lock' = NewLock
    /\ hist' = [NewHist EXCEPT !.ops = hist.ops, !.inits = hist.inits + 1,
                               !.replaced = req_data.seq]
    /\ slotLock' = [slotLock EXCEPT !.writer = NoTask]
    /\ pc' = [pc EXCEPT ![t] = "out"]
    /\ UNCHANGED <<cell, local, engines, chan, heap>>

\* a thread calls one(val): run_method(Controller::one, val)
DevOne(t, limit) ==
    /\ Outside(t)
    /\ hist.ops < limit
    /\ hist' = [hist EXCEPT !.ops = @ + 1]
    /\ \E val \in OneVals :
         local' = [local EXCEPT ![t] = [NewLocal EXCEPT !.op = "one",
                                                        !.ival = val]]
    /\ pc' = [pc EXCEPT ![t] = "rm_lock"]
    /\ UNCHANGED <<lock, cell, req_data, slot, slotLock, engines, chan, heap>>

\* a thread calls two(val): run_method(Controller::two, val)
DevTwo(t, limit) ==
    /\ Outside(t)
    /\ hist.ops < limit
    /\ hist' = [hist EXCEPT !.ops = @ + 1]
    /\ \E val \in TwoVals :
         local' = [local EXCEPT ![t] = [NewLocal EXCEPT !.op = "two",
                                                        !.sval = val]]
    /\ pc' = [pc EXCEPT ![t] = "rm_lock"]
    /\ UNCHANGED <<lock, cell, req_data, slot, slotLock, engines, chan, heap>>

\* run_method(): controller.read().unwrap() returns the guard, the slot is
\* empty: return Err("call init first"), which drops the guard
RunEmpty(t) ==
    /\ pc[t] = "rm_lock"
    /\ slotLock.writer = NoTask
    /\ SlotEmpty(slot)
    /\ engines' = Force(engines)
    /\ local' = [local EXCEPT ![t].ret = ConfigError]
    /\ pc' = [pc EXCEPT ![t] = "out"]
    /\ UNCHANGED <<lock, cell, req_data, hist, slot, slotLock, chan, heap>>

\* run_method(): controller.read().unwrap() returns the guard, the slot is
\* full: CONTROLLER.rt.block_on(f(controller, arg)) starts the call
RunBlockOn(t) ==
    /\ pc[t] = "rm_lock"
    /\ slotLock.writer = NoTask
    /\ ~SlotEmpty(slot)
    /\ slotLock' = [slotLock EXCEPT !.readers = @ \cup {t}]
    /\ engines' = Force(engines)
    /\ BeginCall(t, local[t].op, local[t].ival, local[t].sval)
    /\ UNCHANGED <<lock, cell, req_data, slot, chan, heap>>

\* run_method(): block_on has returned the result; the read guard of the
\* slot is dropped
RunReturn(t) ==
    /\ pc[t] = "done"
    /\ slotLock' = [slotLock EXCEPT !.readers = @ \ {t}]
    /\ pc' = [pc EXCEPT ![t] = "out"]
    /\ UNCHANGED <<lock, cell, req_data, local, hist, slot, engines, chan,
                   heap>>

NextDevice ==
    \E t \in Threads :
        \/ DevInit(t, MaxOps)
        \/ InitLocked(t)
        \/ InitStore(t)
        \/ DevOne(t, MaxOps)
        \/ DevTwo(t, MaxOps)
        \/ RunEmpty(t)
        \/ RunBlockOn(t)
        \/ ControllerStep(t)
        \/ RunReturn(t)

SpecDevice == InitDevice /\ [][NextDevice]_vars

\* a single external thread that makes one wrapper call after the other, as
\* tests::test_basic does
InitDeviceSeq ==
    /\ pc = [t \in {Caller} |-> "idle"]
    /\ lock = NewLock
    /\ cell = 0
    /\ req_data = DefaultReqData
    /\ local = [t \in {Caller} |-> NewLocal]
    /\ hist = NewHist
    /\ slot = "None"
    /\ slotLock = [writer |-> NoTask, readers |-> {}]
    /\ engines = 0
    /\ chan = "empty"
    /\ heap = NoBox

NextDeviceSeq ==
    \/ DevInit(Caller, MaxSeqOps)
    \/ InitLocked(Caller)
    \/ InitStore(Caller)
    \/ DevOne(Caller, MaxSeqOps)
    \/ DevTwo(Caller, MaxSeqOps)
    \/ RunEmpty(Caller)
    \/ RunBlockOn(Caller)
    \/ ControllerStep(Caller)
    \/ RunReturn(Caller)

SpecDeviceSeq == InitDeviceSeq /\ [][NextDeviceSeq]_vars

(* ------------------------ claims about Spec ----------------------------- *)
\* positions at which a task has the write guard / a read guard in hand
HasWriteGuard(t) == pc[t] = "req_fmt" \/ (pc[t] = "req_wait" /\ lock.writer = t)
HasReadGuard(t) == pc[t] = "read_wait" /\ t \in lock.readers
Quiet == \A t \in DOMAIN pc : ~InCall(t)

\* the descriptor that request(path) leaves when it is given number n
Descriptor(path, n) == path \o "&seq=" \o ToString(n)

\* C2: whenever no task holds the write guard, either seq = 0 and last_path
\* is empty, or last_path is the path of the request that was given the
\* current seq, followed by "&seq=" and the current seq.
C2_PairAtomic ==
    lock.writer = NoTask =>
        \/ req_data.seq = 0 /\ req_data.last_path = ""
        \/ \E i \in DOMAIN hist.log :
              /\ hist.log[i].seq = req_data.seq
              /\ req_data.last_path
                   = Descriptor(hist.log[i].path, req_data.seq)

\* C2 witness: two overlapping calls with different paths have both
\* completed their request()
C2_Witness ==
    /\ lock.writer = NoTask
    /\ hist.overlap
    /\ req_data.seq = 2
    /\ Len(hist.log) = 2
    /\ hist.log[1].path # hist.log[2].path

\* C3: seq starts at 0, never decreases, always equals the number of
\* increment steps executed, and when no call is in progress it equals the
\* number of calls that returned a value.
C3_SeqCounts ==
    /\ [](req_data.seq = hist.incs)
    /\ [](Quiet => req_data.seq = hist.oks)
    /\ [](hist.calls = 0 => req_data.seq = 0)
    /\ [][req_data'.seq >= req_data.seq]_vars

\* C3 witness: two calls that overlapped have both returned a value
C3_Witness ==
    /\ Quiet
    /\ hist.overlap
    /\ hist.oks = 2
    /\ req_data.seq = 2

\* C4: a call one(val), val # 3, that ran with no other call in progress
\* returns the sequence number it started from plus 1.
C4_OneSequential ==
    \A t \in DOMAIN pc :
        (/\ pc[t] = "done"
         /\ local[t].op = "one"
         /\ local[t].ival # 3
         /\ local[t].alone)
        => local[t].ret = OkInt(local[t].seq0 + 1)

\* C4 witness: a second sequential one(5) has returned 2
C4_Witness ==
    \E t \in DOMAIN pc :
        /\ pc[t] = "done"
        /\ local[t].op = "one"
        /\ local[t].alone
        /\ local[t].seq0 = 1
        /\ local[t].ret = OkInt(2)

\* the step in which task t starts a call
Starts(t) ==
    /\ Len(hist'.trace) = Len(hist.trace) + 1
    /\ local'[t].idx = Len(hist'.trace)

\* C5: the step of one(3) returns the business error at once and changes
\* neither seq nor last_path nor the lock, whatever the other tasks do; a
\* one(3) that has returned was never given a sequence number.
C5_OneThreeFails ==
    /\ [][\A t \in DOMAIN pc :
            (Starts(t) /\ local'[t].op = "one" /\ local'[t].ival = 3)
            => /\ pc'[t] = "done"
               /\ local'[t].ret = BusinessError
               /\ req_data' = req_data
               /\ lock' = lock]_vars
    /\ [](\A t \in DOMAIN pc :
            (pc[t] = "done" /\ local[t].op = "one" /\ local[t].ival = 3)
            => local[t].ret = BusinessError /\ local[t].mine = 0)

\* C5 witness: one(3) has failed after a mutation, while another call holds
\* the write guard
C5_Witness ==
    \E t, u \in DOMAIN pc :
        /\ pc[t] = "done"
        /\ local[t].op = "one"
        /\ local[t].ival = 3
        /\ local[t].ret = BusinessError
        /\ req_data.seq > 0
        /\ HasWriteGuard(u)

SeqTrace ==
    << [op |-> "one", ival |-> 5, sval |-> ""],
       [op |-> "one", ival |-> 3, sval |-> ""],
       [op |-> "two", ival |-> 0, sval |-> "potato"] >>

\* C6: a call two(val) that ran with no other call in progress returns
\* "two?val=" + val + "&seq=" + (the seq it started from + 1); after
\* one(5); one(3); two("potato") it returns "two?val=potato&seq=2".
C6_TwoSequential ==
    \A t \in DOMAIN pc :
        (pc[t] = "done" /\ local[t].op = "two" /\ local[t].alone)
        => /\ local[t].ret
                = OkStr("two?val=" \o local[t].sval \o "&seq="
                          \o ToString(local[t].seq0 + 1))
           /\ (hist.trace = SeqTrace /\ ~hist.overlap)
                => local[t].ret = OkStr("two?val=potato&seq=2")

\* C6 witness: one(5); one(3); two("potato") ran one at a time
C6_Witness ==
    /\ hist.trace = SeqTrace
    /\ ~hist.overlap
    /\ \E t \in DOMAIN pc :
          /\ pc[t] = "done"
          /\ local[t].op = "two"
          /\ local[t].ret = OkStr("two?val=potato&seq=2")

\* seq and last_path are those left by one whole request()
Whole(rd) ==
    \E i \in DOMAIN hist.log :
        /\ hist.log[i].seq = rd.seq
        /\ rd.last_path = Descriptor(hist.log[i].path, rd.seq)

\* C10: while a task has a read guard no request() is between its increment
\* and its descriptor write (nor anywhere under the write guard); the step
\* in which read().await completes happens with no write guard held and
\* takes its value from a state left by one whole request().
C10_ReadersSeeWhole ==
    /\ [](\A t \in DOMAIN pc :
            HasReadGuard(t) =>
              /\ \A u \in DOMAIN pc : pc[u] # "req_fmt" /\ ~HasWriteGuard(u)
              /\ Whole(req_data))
    /\ [][\A t \in DOMAIN pc :
            (pc[t] = "read_wait" /\ pc'[t] = "done")
            => /\ lock.writer = NoTask
               /\ \A u \in DOMAIN pc : ~HasWriteGuard(u)
               /\ Whole(req_data)
               /\ local'[t].ret = IF local[t].op = "one"
                                  THEN OkInt(req_data.seq)
                                  ELSE OkStr(req_data.last_path)]_vars

\* C10 witness: a reader waits in the queue while a writer is between its
\* increment and its descriptor write
C10_Witness ==
    \E t, u \in DOMAIN pc :
        /\ pc[t] = "read_wait"
        /\ ~HoldsRead(lock, t)
        /\ pc[u] = "req_fmt"

\* C13: every one(val), val # 3, returns the sequence number that its own
\* request() assigned, in any interleaving of concurrent calls.
C13_OneReturnsOwnSeq ==
    \A t \in DOMAIN pc :
        (pc[t] = "done" /\ local[t].op = "one" /\ local[t].ival # 3)
        => local[t].ret = OkInt(local[t].mine)

\* C14: every two(val) returns "two?val=" + val + "&seq=" + n, n the
\* sequence number that its own request() assigned, in any interleaving of
\* concurrent calls.
C14_TwoReturnsOwnPath ==
    \A t \in DOMAIN pc :
        (pc[t] = "done" /\ local[t].op = "two")
        => local[t].ret
             = OkStr("two?val=" \o local[t].sval \o "&seq="
                       \o ToString(local[t].mine))

\* C19: a task whose call has returned, with a value or with an error,
\* holds no guard and waits for none; a task that is back from request()
\* holds no guard; when no call is in progress the lock is free.
C19_GuardsReleased ==
    /\ \A t \in DOMAIN pc :
          pc[t] \in {"idle", "done", "read"} =>
            /\ ~HoldsRead(lock, t)
            /\ ~HoldsWrite(lock, t)
            /\ \A i \in DOMAIN lock.queue : lock.queue[i].task # t
    /\ Quiet => lock = NewLock

\* C19 witness: of two calls that overlapped one has returned a value, the
\* other the business error, and no call is in progress
C19_Witness ==
    /\ Quiet
    /\ hist.overlap
    /\ \E t, u \in DOMAIN pc :
          /\ pc[t] = "done" /\ local[t].ret.kind \in {"int", "str"}
          /\ pc[u] = "done" /\ local[u].ret = BusinessError

\* C22: a call one(3) takes no guard and joins no queue: it has returned
\* the business error as soon as it has started, and while another task
\* holds the write guard, suspended inside request(), a task that is not
\* in a call can run one(3) to its return in one step that leaves the lock
\* and the suspended writer as they are.
C22_OneThreeNeverWaits ==
    /\ [](\A t \in DOMAIN pc :
            (local[t].op = "one" /\ local[t].ival = 3)
            => /\ pc[t] = "done"
               /\ local[t].ret = BusinessError
               /\ ~HoldsRead(lock, t) /\ ~HoldsWrite(lock, t)
               /\ \A i \in DOMAIN lock.queue : lock.queue[i].task # t)
    /\ [](\A t, u \in DOMAIN pc :
            (pc[u] = "req_fmt" /\ pc[t] \in {"idle", "done"})
            => ENABLED (/\ BeginCall(t, "one", 3, "")
                        /\ pc'[t] = "done"
                        /\ UNCHANGED <<lock, req_data, notController>>))
    /\ [][\A t, u \in DOMAIN pc :
            (/\ pc[u] = "req_fmt"
             /\ Starts(t) /\ local'[t].op = "one" /\ local'[t].ival = 3)
            => /\ pc'[t] = "done"
               /\ pc'[u] = "req_fmt"
               /\ lock'.writer = u
               /\ lock'.queue = lock.queue]_vars

\* C22 witness: one(3) started after another call's request() had taken
\* the write guard and incremented seq, and has returned the error while
\* that request() is still suspended with the guard
C22_Witness ==
    \E t, u \in DOMAIN pc :
        /\ pc[u] = "req_fmt"
        /\ lock.writer = u
        /\ local[u].idx = 1
        /\ local[u].mine = 1
        /\ pc[t] = "done"
        /\ local[t].op = "one"
        /\ local[t].ival = 3
        /\ local[t].idx = 2
        /\ local[t].seq0 = 1
        /\ local[t].ret = BusinessError

\* C20: a step that changes seq or last_path is a step of the task that
\* holds the write guard; a step of request() past its write().await is
\* taken with the write guard held; the step that reads seq or last_path
\* for the result is taken with a read guard held.
C20_OnlyUnderLock ==
    /\ [][req_data' # req_data =>
            /\ lock.writer \in DOMAIN pc
            /\ pc'[lock.writer] # pc[lock.writer]]_vars
    /\ [][\A t \in DOMAIN pc :
            (pc[t] \in {"req_wait", "req_fmt"} /\ pc'[t] # pc[t])
            => HoldsWrite(lock, t)]_vars
    /\ [][\A t \in DOMAIN pc :
            (pc[t] = "read_wait" /\ pc'[t] # pc[t])
            => HoldsRead(lock, t) \/ HoldsWrite(lock, t)]_vars

\* C20 witness: a task reads under its read guard, after a mutation,
\* while a request() waits in the queue for the write guard
C20_Witness ==
    \E t, u \in DOMAIN pc :
        /\ pc[t] = "read_wait"
        /\ HoldsRead(lock, t)
        /\ pc[u] = "req_wait"
        /\ ~HoldsWrite(lock, u)
        /\ req_data.seq >= 1

\* the request() mutations that have completed: the increments whose
\* request() has also written its descriptor
CompletedRequests ==
    hist.incs - Cardinality({u \in DOMAIN pc : pc[u] = "req_fmt"})

\* C27: a call one(val), val # 3, returns an integer r with s <= r <= m,
\* s the number its own request() assigned and m the number of request()
\* mutations completed at the step in which it returns, in any interleaving.
C27_OneBounds ==
    /\ [][\A t \in DOMAIN pc :
            (pc[t] = "read_wait" /\ pc'[t] = "done" /\ local[t].op = "one")
            => /\ local[t].ival # 3
               /\ local'[t].ret.kind = "int"
               /\ local[t].mine >= 1
               /\ local[t].mine <= local'[t].ret.i
               /\ local'[t].ret.i <= CompletedRequests]_vars
    /\ [](\A t \in DOMAIN pc :
            (pc[t] = "done" /\ local[t].op = "one" /\ local[t].ival # 3)
            => /\ local[t].ret.kind = "int"
               /\ local[t].mine <= local[t].ret.i
               /\ local[t].ret.i <= hist.incs)

\* C27 witness: a one(5) whose request() was given 1 has returned 2
C27_Witness ==
    \E t \in DOMAIN pc :
        /\ pc[t] = "done"
        /\ local[t].op = "one"
        /\ local[t].mine = 1
        /\ local[t].ret = OkInt(2)
        /\ hist.incs = 2

\* C28: a call two(val) returns the whole descriptor written by one
\* request(), its own or a later one: the path of the request that was
\* given some number n >= its own, followed by "&seq=" and n; never the
\* empty string, never one request's path with another's number.
C28_TwoWellFormed ==
    \A t \in DOMAIN pc :
        (pc[t] = "done" /\ local[t].op = "two")
        => /\ local[t].ret.kind = "str"
           /\ local[t].ret.s # ""
           /\ \E i \in DOMAIN hist.log :
                 /\ hist.log[i].seq >= local[t].mine
                 /\ hist.log[i].seq <= hist.incs
                 /\ local[t].ret.s
                      = Descriptor(hist.log[i].path, hist.log[i].seq)
           /\ \A i \in DOMAIN hist.log :
                 hist.log[i].path # local[t].ret.s

\* C28 witness: a two("potato") whose request() was given 1 has returned
\* the descriptor of the one(5) that was given 2
C28_Witness ==
    \E t \in DOMAIN pc :
        /\ pc[t] = "done"
        /\ local[t].op = "two"
        /\ local[t].mine = 1
        /\ local[t].ret = OkStr("one?val=5&seq=2")

(* --------------------- claims about SpecDevice -------------------------- *)
InController(t) == InCall(t) \/ pc[t] = "done"

\* C7: while the slot is empty no Controller operation runs or has run;
\* a dispatch that finds the slot empty returns "call init first", changes
\* nothing and lets go of the slot; only init() fills the slot.
C7_BeforeInit ==
    /\ [](slot = "None" =>
            /\ \A t \in DOMAIN pc : ~InController(t)
            /\ req_data = DefaultReqData
            /\ lock = NewLock
            /\ hist.calls = 0)
    /\ [][\A t \in DOMAIN pc :
            (pc[t] = "rm_lock" /\ slot = "None" /\ pc'[t] # pc[t])
            => /\ pc'[t] = "out"
               /\ local'[t].ret = ConfigError
               /\ slot' = "None"
               /\ req_data' = req_data
               /\ lock' = lock
               /\ t \notin slotLock'.readers]_vars
    /\ [][(slot = "None" /\ slot' # "None")
            => \E t \in DOMAIN pc : pc[t] = "init_store"]_vars

\* C7 witness: one(3) and then another dispatch have both failed with the
\* configuration error and the slot is still empty
C7_Witness ==
    /\ slot = "None"
    /\ \E t, u \in DOMAIN pc :
          /\ t # u
          /\ pc[t] = "out"
          /\ local[t].op = "one"
          /\ local[t].ival = 3
          /\ local[t].ret = ConfigError
          /\ pc[u] = "out"
          /\ local[u].op = "two"
          /\ local[u].ret = ConfigError

\* C8: once init() has stored a Controller, a dispatch runs the Controller
\* operation, and as long as the calls since that init() did not overlap,
\* each returns what the same sequence of calls returns on a fresh
\* Controller driven directly.
C8_DispatcherIsController ==
    /\ [](\A t \in DOMAIN pc :
            (/\ pc[t] = "out"
             /\ local[t].op \in {"one", "two"}
             /\ local[t].idx > 0
             /\ local[t].epoch = hist.inits
             /\ ~hist.overlap)
            => local[t].ret
                 = DirectRun(DefaultReqData, hist.trace)[local[t].idx])
    /\ [][\A t \in DOMAIN pc :
            (pc[t] = "rm_lock" /\ slot = "Some" /\ pc'[t] # pc[t])
            => /\ pc'[t] \in {"req_write", "done"}
               /\ local'[t].idx > 0
               /\ t \in slotLock'.readers]_vars

\* C8 witness: after init(), one(5); one(3); two("potato") were dispatched
\* one at a time and two returned "two?val=potato&seq=2"
C8_Witness ==
    /\ hist.trace = SeqTrace
    /\ ~hist.overlap
    /\ \E t \in DOMAIN pc :
          /\ pc[t] = "out"
          /\ local[t].op = "two"
          /\ local[t].idx = 3
          /\ local[t].epoch = hist.inits
          /\ local[t].ret = OkStr("two?val=potato&seq=2")

\* the step in which init() stores the Controller
InitStores ==
    \E t \in DOMAIN pc : pc[t] = "init_store" /\ pc'[t] = "out"

\* C18: init() stores a fresh Controller, {seq 0, last_path ""} behind a
\* free lock, whatever the calls before it; the first call after it, if it
\* is one(val) with val # 3, returns 1; an init() right after an init()
\* changes nothing.
C18_InitResets ==
    /\ [][InitStores =>
            /\ slot' = "Some"
            /\ req_data' = DefaultReqData
            /\ lock' = NewLock]_vars
    /\ [](\A t \in DOMAIN pc :
            (/\ pc[t] = "out"
             /\ local[t].op = "one"
             /\ local[t].ival # 3
             /\ local[t].idx = 1
             /\ local[t].alone
             /\ local[t].epoch = hist.inits)
            => local[t].ret = OkInt(1))
    /\ [][(InitStores /\ slot = "Some" /\ hist.calls = 0)
            => /\ slot' = slot
               /\ req_data' = req_data
               /\ lock' = lock]_vars

\* C18 witness: init(); one(5); init(); one(5): the second init() replaced
\* a Controller whose seq was 1, and the one(5) after it returned 1
C18_Witness ==
    /\ hist.inits = 2
    /\ hist.replaced = 1
    /\ \E t \in DOMAIN pc :
          /\ pc[t] = "out"
          /\ local[t].op = "one"
          /\ local[t].idx = 1
          /\ local[t].epoch = 2
          /\ local[t].ret = OkInt(1)

\* C24: CONTROLLER builds its runtime once, at the first access made by
\* init() or by a dispatch, and never again: init()'s store leaves the
\* runtime alone, and every Controller call runs while that one runtime
\* exists.
C24_OneEngine ==
    /\ [](engines <= 1)
    /\ [](engines = 0 =>
            /\ hist.inits = 0
            /\ \A t \in DOMAIN pc : pc[t] \in {"idle", "init_lock", "rm_lock"})
    /\ [](\A t \in DOMAIN pc :
            (InController(t) \/ pc[t] \in {"init_store", "out"})
            => engines = 1)
    /\ [][engines' # engines => engines = 0 /\ engines' = 1]_vars
    /\ [][InitStores => engines = 1 /\ engines' = 1]_vars

\* C24 witness: after two init() calls a dispatch is running, on the one
\* runtime
C24_Witness ==
    /\ engines = 1
    /\ hist.inits = 2
    /\ \E t \in DOMAIN pc : InCall(t)

\* C26: from the start of a dispatch to its return the thread holds the
\* slot's read lock and no init() holds the write lock, so the Controller
\* in the slot is the one the dispatch started with; the step in which
\* init() stores a Controller is taken with no dispatch in flight.
C26_OneInstancePerDispatch ==
    /\ [](\A t \in DOMAIN pc :
            InController(t) =>
              /\ t \in slotLock.readers
              /\ slotLock.writer = NoTask
              /\ slot = "Some"
              /\ local[t].epoch = hist.inits)
    /\ [][InitStores =>
            /\ slotLock.readers = {}
            /\ \A t \in DOMAIN pc : ~InController(t)]_vars
    /\ [][\A t \in DOMAIN pc :
            (InController(t) /\ req_data' # req_data)
            => /\ hist'.inits = local[t].epoch
               /\ lock.writer \in DOMAIN pc
               /\ InController(lock.writer)]_vars

\* C26 witness: an init() waits for the slot while a dispatch that started
\* after the first init() is between its increment and its descriptor write
C26_Witness ==
    \E t, u \in DOMAIN pc :
        /\ pc[u] = "init_lock"
        /\ pc[t] = "req_fmt"
        /\ t \in slotLock.readers
        /\ hist.inits = 1
        /\ local[t].epoch = 1
        /\ req_data.seq = 1

(* ------------- the lock tests (runtime-tokio/src/rwlock/tests.rs) ------- *)
\* the tasks of a test: the test function and the tasks it spawns
Main == 1
H1 == 2
H2 == 3
TestTasks == {Main, H1, H2}

\* the tests of stage 04 and of stage 05; the stage-05 tests reach the lock
\* through box_lock/unbox_lock except test_lock, which uses new_lock
LockTests == {"04/test_lock", "05/test_lock"}
BasicTests == {"04/test_basic", "05/test_basic"}
LockerTests == {"05/test_locker"}
TestNames == LockTests \cup BasicTests \cup LockerTests

\* history of a test: its name, the assertions evaluated, whether one
\* failed, whether a write() had to wait
TestHist(name) ==
    [test |-> name, asserts |-> 0, failed |-> FALSE, queued |-> FALSE]

\* new_lock(5) in test_lock, new_lock(3) / box_lock(3) in the others
InitialCell(name) == IF name \in LockTests THEN 5 ELSE 3

InitTests ==
    /\ \E name \in TestNames :
         /\ hist = TestHist(name)
         /\ cell = InitialCell(name)
         /\ pc = [t \in TestTasks |->
                    IF t # Main THEN "unborn"
                    ELSE IF name \in LockTests THEN "l_spawn1" ELSE "g_read1"]
    /\ lock = NewLock
    /\ req_data = DefaultReqData
    /\ local = [t \in TestTasks |-> [seen |-> 0]]
    /\ slot = "None"
    /\ slotLock = [writer |-> NoTask, readers |-> {}]
    /\ engines = 0
    /\ chan = "empty"
    /\ heap = NoBox

notTest == <<req_data, slot, slotLock, engines, heap>>

\* task::spawn(..): the new task starts at `first`
TSpawn(t, from, to, child, first) ==
    /\ pc[t] = from
    /\ pc[child] = "unborn"
    /\ pc' = [pc EXCEPT ![t] = to, ![child] = first]
    /\ UNCHANGED <<lock, cell, local, hist, chan, notTest>>

\* h.await.unwrap(): the spawned task has finished
TJoin(t, from, to, child) ==
    /\ pc[t] = from
    /\ pc[child] = "end"
    /\ pc' = [pc EXCEPT ![t] = to]
    /\ UNCHANGED <<lock, cell, local, hist, chan, notTest>>

\* m.write() is polled
TWrite(t, from, to) ==
    /\ pc[t] = from
    /\ lock' = LockWrite(lock, t)
    /\ hist' = [hist EXCEPT !.queued = @ \/ ~HoldsWrite(lock', t)]
    /\ pc' = [pc EXCEPT ![t] = to]
    /\ UNCHANGED <<cell, local, chan, notTest>>

\* m.read() is polled
TRead(t, from, to) ==
    /\ pc[t] = from
    /\ lock' = LockRead(lock, t)
    /\ pc' = [pc EXCEPT ![t] = to]
    /\ UNCHANGED <<cell, local, hist, chan, notTest>>

\* .await returns the guard
TGot(t, from, to) ==
    /\ pc[t] = from
    /\ HoldsWrite(lock, t) \/ HoldsRead(lock, t)
    /\ pc' = [pc EXCEPT ![t] = to]
    /\ UNCHANGED <<lock, cell, local, hist, chan, notTest>>

\* an await under the guard (a sleep, a ready future): the task goes on later
TResume(t, from, to) ==
    /\ pc[t] = from
    /\ pc' = [pc EXCEPT ![t] = to]
    /\ UNCHANGED <<lock, cell, local, hist, chan, notTest>>

\* assert_eq!(*lock, want)
TAssert(t, from, to, want) ==
    /\ pc[t] = from
    /\ HoldsWrite(lock, t) \/ HoldsRead(lock, t)
    /\ local' = [local EXCEPT ![t].seen = cell]
    /\ hist' = [hist EXCEPT !.asserts = @ + 1,
                            !.failed = @ \/ cell # want]
    /\ pc' = [pc EXCEPT ![t] = IF cell = want THEN to ELSE "panicked"]
    /\ UNCHANGED <<lock, cell, chan, notTest>>

\* *lock = v
TStoreLost(t, from, to, v) ==
    /\ pc[t] = from
    /\ HoldsWrite(lock, t)
    /\ pc' = [pc EXCEPT ![t] = to]
    /\ UNCHANGED <<lock, cell, local, hist, chan, notTest>>
TStore(t, from, to, v) ==
    /\ pc[t] = from
    /\ HoldsWrite(lock, t)
    /\ cell' = v
    /\ pc' = [pc EXCEPT ![t] = to]
    /\ UNCHANGED <<lock, local, hist, chan, notTest>>

\* the guard goes out of scope
TDrop(t, from, to) ==
    /\ pc[t] = from
    /\ lock' = Unlock(lock, t)
    /\ pc' = [pc EXCEPT ![t] = to]
    /\ UNCHANGED <<cell, local, hist, chan, notTest>>

\* tx.send(()).unwrap()
TSend(t, from, to) ==
    /\ pc[t] = from
    /\ chan' = "sent"
    /\ pc' = [pc EXCEPT ![t] = to]
    /\ UNCHANGED <<lock, cell, local, hist, notTest>>

\* rx.await.unwrap()
TRecv(t, from, to) ==
    /\ pc[t] = from
    /\ chan = "sent"
    /\ chan' = "taken"
    /\ pc' = [pc EXCEPT ![t] = to]
    /\ UNCHANGED <<lock, cell, local, hist, notTest>>

\* test_lock, the test function
TestLockMain ==
    \/ TSpawn(Main, "l_spawn1", "l_spawn2", H1, "a_write")
    \/ TSpawn(Main, "l_spawn2", "l_join1", H2, "b_recv")
    \/ TJoin(Main, "l_join1", "l_join2", H1)
    \/ TJoin(Main, "l_join2", "l_read", H2)
    \/ TRead(Main, "l_read", "l_wait")
    \/ TGot(Main, "l_wait", "l_assert")
    \/ TAssert(Main, "l_assert", "l_drop", 11)
    \/ TDrop(Main, "l_drop", "end")

\* test_lock, the first spawned task
TestLockH1 ==
    \/ TWrite(H1, "a_write", "a_wait")
    \/ TGot(H1, "a_wait", "a_send")
    \/ TSend(H1, "a_send", "a_sleep")
    \/ TResume(H1, "a_sleep", "a_assert")
    \/ TAssert(H1, "a_assert", "a_store", 5)
    \/ TStore(H1, "a_store", "a_drop", 10)
    \/ TDrop(H1, "a_drop", "end")

\* test_lock, the second spawned task
TestLockH2 ==
    \/ TRecv(H2, "b_recv", "b_write")
    \/ TWrite(H2, "b_write", "b_wait")
    \/ TGot(H2, "b_wait", "b_assert")
    \/ TAssert(H2, "b_assert", "b_store", 10)
    \/ TStore(H2, "b_store", "b_drop", 11)
    \/ TDrop(H2, "b_drop", "end")

\* *m += 1
TIncr(t, from, to) ==
    /\ pc[t] = from
    /\ HoldsWrite(lock, t)
    /\ cell' = cell + 1
    /\ pc' = [pc EXCEPT ![t] = to]
    /\ UNCHANGED <<lock, local, hist, chan, notTest>>

\* do_thing() returns *m and its guard goes out of scope
TReturn(t, from, to) ==
    /\ pc[t] = from
    /\ HoldsWrite(lock, t)
    /\ local' = [local EXCEPT ![t].seen = cell]
    /\ lock' = Unlock(lock, t)
    /\ pc' = [pc EXCEPT ![t] = to]
    /\ UNCHANGED <<cell, hist, chan, notTest>>

\* assert_eq!(th.do_thing().await, want)
TCheck(t, from, to, want) ==
    /\ pc[t] = from
    /\ hist' = [hist EXCEPT !.asserts = @ + 1,
                            !.failed = @ \/ local[t].seen # want]
    /\ pc' = [pc EXCEPT ![t] = IF local[t].seen = want THEN to ELSE "panicked"]
    /\ UNCHANGED <<lock, cell, local, chan, notTest>>

\* generic_thing(m), called first by test_basic and by test_locker
GenericThing ==
    \/ TRead(Main, "g_read1", "g_wait1")
    \/ TGot(Main, "g_wait1", "g_await1")
    \/ TResume(Main, "g_await1", "g_assert1")
    \/ TAssert(Main, "g_assert1", "g_drop1", 3)
    \/ TDrop(Main, "g_drop1", "g_write")
    \/ TWrite(Main, "g_write", "g_wait2")
    \/ TGot(Main, "g_wait2", "g_await2")
    \/ TResume(Main, "g_await2", "g_store")
    \/ TStore(Main, "g_store", "g_drop2", 4)
    \/ TDrop(Main, "g_drop2", "g_read2")
    \/ TRead(Main, "g_read2", "g_wait3")
    \/ TGot(Main, "g_wait3", "g_assert2")
    \/ TAssert(Main, "g_assert2", "g_await3", 4)
    \/ TResume(Main, "g_await3", "g_drop3")
    \/ hist.test \in BasicTests /\ TDrop(Main, "g_drop3", "t_read")
    \/ hist.test \in LockerTests /\ TDrop(Main, "g_drop3", "k_write1")

\* test_basic after generic_thing, the test function
TestBasicMain ==
    \/ TRead(Main, "t_read", "t_wait")
    \/ TGot(Main, "t_wait", "t_assert")
    \/ TAssert(Main, "t_assert", "t_drop", 4)
    \/ TDrop(Main, "t_drop", "t_spawn")
    \/ TSpawn(Main, "t_spawn", "t_join", H1, "s_write")
    \/ TJoin(Main, "t_join", "t_read2", H1)
    \/ TRead(Main, "t_read2", "t_wait2")
    \/ TGot(Main, "t_wait2", "t_assert2")
    \/ TAssert(Main, "t_assert2", "t_drop2", 5)
    \/ TDrop(Main, "t_drop2", "end")

\* test_basic, the spawned task
TestBasicH ==
    \/ TWrite(H1, "s_write", "s_wait")
    \/ TGot(H1, "s_wait", "s_await")
    \/ TResume(H1, "s_await", "s_store")
    \/ TStore(H1, "s_store", "s_drop", 5)
    \/ TDrop(H1, "s_drop", "end")

\* test_locker after generic_thing: th.do_thing() twice
TestLocker ==
    \/ TWrite(Main, "k_write1", "k_wait1")
    \/ TGot(Main, "k_wait1", "k_await1")
    \/ TResume(Main, "k_await1", "k_incr1")
    \/ TIncr(Main, "k_incr1", "k_ret1")
    \/ TReturn(Main, "k_ret1", "k_check1")
    \/ TCheck(Main, "k_check1", "k_await", 5)
    \/ TResume(Main, "k_await", "k_write2")
    \/ TWrite(Main, "k_write2", "k_wait2")
    \/ TGot(Main, "k_wait2", "k_await2")
    \/ TResume(Main, "k_await2", "k_incr2")
    \/ TIncr(Main, "k_incr2", "k_ret2")
    \/ TReturn(Main, "k_ret2", "k_check2")
    \/ TCheck(Main, "k_check2", "end", 6)

NextTests ==
    \/ TestLockMain
    \/ TestLockH1
    \/ TestLockH2
    \/ GenericThing
    \/ TestBasicMain
    \/ TestBasicH
    \/ TestLocker

SpecTests == InitTests /\ [][NextTests]_vars

IsLockTest == hist.test \in LockTests

\* C9: in test_lock the second task has its write guard only after the
\* first task has released; the first task still reads 5 after its sleep,
\* the second reads exactly 10, the final value is 11, no assertion fails.
C9_WriterHandshake ==
    IsLockTest =>
        /\ (pc[H2] \in {"b_assert", "b_store", "b_drop", "end"}
              => pc[H1] = "end")
        /\ (pc[H1] \in {"a_store", "a_drop", "end"} => local[H1].seen = 5)
        /\ (pc[H2] \in {"b_store", "b_drop", "end"} => local[H2].seen = 10)
        /\ (pc[Main] = "end" => cell = 11 /\ local[Main].seen = 11)
        /\ ~hist.failed
        /\ \A t \in TestTasks : pc[t] # "panicked"

\* C9 witness: test_lock has ended with 11 after the second task's write()
\* had to wait for the first task's guard
C9_Witness ==
    /\ IsLockTest
    /\ hist.queued
    /\ pc[Main] = "end"
    /\ pc[H2] = "end"
    /\ cell = 11

\* C23: in generic_thing and test_basic a guard taken after a write guard
\* was released sees the value stored under that write guard, by the same
\* task (4) or by the spawned task (5); the 3 read before an await under
\* the read guard is still 3 after it; the value changes only in a step of
\* the task that holds the write guard; no assertion fails.
C23_ReadAfterWrite ==
    /\ [](~IsLockTest =>
            /\ (pc[Main] = "g_drop1" => local[Main].seen = 3 /\ cell = 3)
            /\ (pc[Main] \in {"g_await3", "g_drop3", "t_drop"}
                  => local[Main].seen = 4 /\ cell = 4)
            /\ (pc[H1] \in {"s_drop", "end"} => cell = 5)
            /\ (pc[Main] = "t_drop2" => local[Main].seen = 5)
            /\ (hist.test \in BasicTests /\ pc[Main] = "end"
                  => local[Main].seen = 5 /\ cell = 5 /\ hist.asserts = 4)
            /\ ~hist.failed
            /\ \A t \in TestTasks : pc[t] # "panicked")
    /\ [][cell' # cell =>
            /\ lock.writer \in TestTasks
            /\ pc'[lock.writer] # pc[lock.writer]]_vars
    /\ [][\A t \in TestTasks :
            (HoldsRead(lock, t) /\ HoldsRead(lock', t)) => cell' = cell]_vars

\* C23 witness: test_basic has ended: the test function has read 5, the
\* value the spawned task stored, after its own 3, 4 and 4
C23_Witness ==
    /\ hist.test \in BasicTests
    /\ pc[Main] = "end"
    /\ pc[H1] = "end"
    /\ hist.asserts = 4
    /\ local[Main].seen = 5
    /\ cell = 5

(* ------- SpecWorker: the tasks of one run on a single-worker engine ----- *)
\* the run is one of the lock tests (#[tokio::test(flavor = "current_thread")])
\* or a set of one()/two() calls on the current_thread runtime of CONTROLLER
IsTestRun == "test" \in DOMAIN hist

\* the worker runs one ready task up to its next suspension point
NextWorker == IF IsTestRun THEN NextTests ELSE Next

\* the worker never idles while a task is ready
SpecWorker ==
    /\ Init \/ InitTests
    /\ [][NextWorker]_vars
    /\ WF_vars(NextWorker)

\* the task is spawned and has not returned
Unfinished(t) ==
    IF IsTestRun THEN pc[t] \notin {"unborn", "end"} ELSE InCall(t)

AllFinished == \A t \in DOMAIN pc : ~Unfinished(t)

\* some unfinished task can take its next step
SomeTaskRuns ==
    IF IsTestRun THEN ENABLED NextTests
    ELSE ENABLED (\E t \in Tasks : ControllerStep(t))

\* C12: on one worker, in no reachable state are all the unfinished tasks
\* blocked, and every run of the lock tests and of a finite set of
\* one()/two() calls ends with every task finished.
C12_NoDeadlock ==
    /\ [](AllFinished \/ SomeTaskRuns)
    /\ (~AllFinished) ~> AllFinished

\* C12 witness: a call waits in the queue for the write guard while the
\* holder is suspended between its increment and its descriptor write
C12_Witness ==
    /\ ~IsTestRun
    /\ \E t, u \in DOMAIN pc :
          /\ pc[t] = "req_wait"
          /\ ~HoldsWrite(lock, t)
          /\ lock.queue # <<>>
          /\ pc[u] = "req_fmt"
          /\ HoldsWrite(lock, u)

(* ---- SpecStages: the Controllers of three stages given the same calls --- *)
\* the test function of each stage: `let c = Controller::new()` and calls
\* made one at a time; the three run independently of each other
Stage00 == 1
Stage03 == 2
Stage05 == 3
Stages == {Stage00, Stage03, Stage05}

\* 00-initial request(): with one caller write().unwrap() returns the guard
\* at once; the guard is dropped when request() returns
Sync00Request(c, path) ==
    LET n == c.seq + 1
    IN  [seq |-> n, last_path |-> path \o "&seq=" \o ToString(n)]

\* 00-initial one(): read().unwrap() returns its guard at once
Sync00OneLate(c, val) ==
    LET after == Sync00Request(c, "one?val=" \o ToString(val))
    IN  IF val = 3
        THEN [c |-> after, ret |-> Err("sorry, not that one")]
        ELSE [c |-> after, ret |-> OkInt(after.seq)]
Sync00One(c, val) ==
    IF val = 3
    THEN [c |-> c, ret |-> Err("sorry, not that one")]
    ELSE LET after == Sync00Request(c, "one?val=" \o ToString(val))
         IN  [c |-> after, ret |-> OkInt(after.seq)]

\* 00-initial two()
Sync00Two(c, val) ==
    LET after == Sync00Request(c, "two?val=" \o val)
    IN  [c |-> after, ret |-> OkStr(after.last_path)]

\* Controller::new() in each stage: ReqData::default() behind a std RwLock
\* (held in the test's local c), behind a tokio RwLock (lock, req_data),
\* and behind the lock that box_lock puts in an ImplBox (heap)
InitStages ==
    /\ pc = [s \in Stages |-> "idle"]
    /\ lock = NewLock
    /\ cell = 0
    /\ req_data = [seq |-> 0, last_path |-> ""]
    /\ local = [s \in Stages |->
                  IF s = Stage00
                  THEN [op |-> "none", ival |-> 0, sval |-> "", ret |-> NoRet,
                        c |-> [seq |-> 0, last_path |-> ""]]
                  ELSE NewLocal]
    /\ hist = NewHist
    /\ slot = "None"
    /\ slotLock = [writer |-> NoTask, readers |-> {}]
    /\ engines = 0
    /\ chan = "empty"
    /\ heap = [live |-> TRUE, box |-> BoxLock(DefaultReqData).box,
               payload |-> BoxLock(DefaultReqData).payload,
               destroyed |-> <<>>, last |-> <<>>]

\* the next call of the sequence is given to the three tests, once each
\* has the result of the call before
StIssue ==
    /\ \A s \in Stages : pc[s] \in {"idle", "done"}
    /\ hist.calls < MaxSeqCalls
    /\ \E call \in [op : {"one"}, ival : OneVals, sval : {""}]
                   \cup [op : {"two"}, ival : {0}, sval : TwoVals] :
         /\ hist' = Traced(call.op, call.ival, call.sval)
         /\ local' = [s \in Stages |->
                        [local[s] EXCEPT !.op = call.op, !.ival = call.ival,
                                         !.sval = call.sval, !.ret = NoRet]]
    /\ pc' = [s \in Stages |-> "called"]
    /\ UNCHANGED <<lock, req_data, notController>>

\* 00-initial: c.one(val) / c.two(val) runs to its return on the thread
St00Call ==
    /\ pc[Stage00] = "called"
    /\ LET l == local[Stage00]
           r == IF l.op = "one" THEN Sync00One(l.c, l.ival)
                ELSE Sync00Two(l.c, l.sval)
       IN  local' = [local EXCEPT ![Stage00].c = r.c, ![Stage00].ret = r.ret]
    /\ pc' = [pc EXCEPT ![Stage00] = "done"]
    /\ UNCHANGED <<lock, req_data, hist, notController>>

\* 03-stable-rust: one()/two() up to the first await
St03Begin ==
    /\ pc[Stage03] = "called"
    /\ LET l == local[Stage03] IN
       IF l.op = "one" /\ l.ival = 3
       THEN /\ local' = [local EXCEPT
                           ![Stage03].ret = Err("sorry, not that one")]
            /\ pc' = [pc EXCEPT ![Stage03] = "done"]
       ELSE /\ local' = [local EXCEPT ![Stage03].path =
                           IF l.op = "one"
                           THEN "one?val=" \o ToString(l.ival)
                           ELSE "two?val=" \o l.sval]
            /\ pc' = [pc EXCEPT ![Stage03] = "req_write"]
    /\ UNCHANGED <<lock, req_data, hist, notController>>

\* 05-final: one()/two() up to the first await
St05Begin ==
    /\ pc[Stage05] = "called"
    /\ LET l == local[Stage05] IN
       IF l.op = "one" /\ Rejected(l.ival)
       THEN /\ local' = [local EXCEPT ![Stage05].ret = BusinessError]
            /\ pc' = [pc EXCEPT ![Stage05] = "done"]
       ELSE /\ local' = [local EXCEPT ![Stage05].path =
                           IF l.op = "one" THEN OnePath(l.ival)
                           ELSE TwoPath(l.sval)]
            /\ pc' = [pc EXCEPT ![Stage05] = "req_write"]
    /\ UNCHANGED <<lock, req_data, hist, heap, cell, slot, slotLock, engines,
                   chan>>

\* 05-final request(): self.req_data() unboxes the lock, write() is polled
St05ReqWrite ==
    /\ pc[Stage05] = "req_write"
    /\ IF UnboxLock(heap.box).kind = "ret"
       THEN /\ heap' = [heap EXCEPT !.payload.lock = LockWrite(@, Stage05)]
            /\ pc' = [pc EXCEPT ![Stage05] = "req_wait"]
       ELSE /\ heap' = heap
            /\ pc' = [pc EXCEPT ![Stage05] = "unbox_panic"]
    /\ UNCHANGED <<lock, req_data, local, hist, cell, slot, slotLock,
                   engines, chan>>

\* 05-final request(): .await returns the write guard; ref_data.seq += 1
St05ReqIncr ==
    /\ pc[Stage05] = "req_wait"
    /\ HoldsWrite(heap.payload.lock, Stage05)
    /\ heap' = [heap EXCEPT !.payload.val = IncrSeq(@)]
    /\ pc' = [pc EXCEPT ![Stage05] = "req_fmt"]
    /\ UNCHANGED <<lock, req_data, local, hist, cell, slot, slotLock,
                   engines, chan>>

\* 05-final request(): last_path is written, the write guard is dropped
St05ReqFormat ==
    /\ pc[Stage05] = "req_fmt"
    /\ heap' = [heap EXCEPT
                  !.payload.val = WritePath(@, local[Stage05].path),
                  !.payload.lock = Unlock(@, Stage05)]
    /\ pc' = [pc EXCEPT ![Stage05] = "read"]
    /\ UNCHANGED <<lock, req_data, local, hist, cell, slot, slotLock,
                   engines, chan>>

\* 05-final one()/two(): self.req_data() unboxes the lock, read() is polled
St05Read ==
    /\ pc[Stage05] = "read"
    /\ IF UnboxLock(heap.box).kind = "ret"
       THEN /\ heap' = [heap EXCEPT !.payload.lock = LockRead(@, Stage05)]
            /\ pc' = [pc EXCEPT ![Stage05] = "read_wait"]
       ELSE /\ heap' = heap
            /\ pc' = [pc EXCEPT ![Stage05] = "unbox_panic"]
    /\ UNCHANGED <<lock, req_data, local, hist, cell, slot, slotLock,
                   engines, chan>>

\* 05-final one()/two(): .await returns the read guard, the field is read,
\* the guard is dropped and Ok(..) is returned
St05ReadDone ==
    /\ pc[Stage05] = "read_wait"
    /\ HoldsRead(heap.payload.lock, Stage05)
    /\ local' = [local EXCEPT ![Stage05].ret =
                    IF local[Stage05].op = "one"
                    THEN OneResult(heap.payload.val)
                    ELSE TwoResult(heap.payload.val)]
    /\ heap' = [heap EXCEPT !.payload.lock = Unlock(@, Stage05)]
    /\ pc' = [pc EXCEPT ![Stage05] = "done"]
    /\ UNCHANGED <<lock, req_data, hist, cell, slot, slotLock, engines, chan>>

NextStages ==
    \/ StIssue
    \/ St00Call
    \/ St03Begin
    \/ ControllerStep(Stage03)
    \/ St05Begin
    \/ St05ReqWrite
    \/ St05ReqIncr
    \/ St05ReqFormat
    \/ St05Read
    \/ St05ReadDone

SpecStages == InitStages /\ [][NextStages]_vars

\* C29: given the same calls one at a time, the Controller of 00-initial,
\* that of 03-stable-rust and that of 05-final return the same result or
\* error for every call and are left with the same seq and last_path and
\* with their locks free; after one(5); one(3); two("potato") each has
\* returned "two?val=potato&seq=2".
C29_StagesAgree ==
    /\ \A s \in Stages : pc[s] # "unbox_panic"
    /\ (\A s \in Stages : pc[s] = "done") =>
         /\ local[Stage00].ret = local[Stage03].ret
         /\ local[Stage03].ret = local[Stage05].ret
         /\ local[Stage05].ret # NoRet
         /\ local[Stage00].c = req_data
         /\ req_data = heap.payload.val
         /\ lock = NewLock
         /\ heap.payload.lock = NewLock
         /\ hist.trace = SeqTrace
              => local[Stage00].ret = OkStr("two?val=potato&seq=2")

\* C29 witness: the three stages have each returned from one(5); one(3);
\* two("potato"), with seq 2
C29_Witness ==
    /\ \A s \in Stages : pc[s] = "done"
    /\ hist.trace = SeqTrace
    /\ local[Stage05].ret = OkStr("two?val=potato&seq=2")
    /\ local[Stage00].c.seq = 2
    /\ heap.payload.val.seq = 2
    /\ req_data.seq = 2

====
